---- MODULE Spec2Model ----
(***************************************************************************)
(* mercari-bot: the per-profile run (mercari_price_down.execute and        *)
(* _execute_once) with its session-retry loop, and the top-level loop over *)
(* the configured profiles (cli.execute).                                  *)
(*                                                                         *)
(* The browser manager, the login collaborator, the listing enumerator and *)
(* the notification functions are external; each call of one of them is a  *)
(* step whose outcome (return, or the class of the exception it raises) is *)
(* chosen nondeterministically.                                            *)
(*                                                                         *)
(* The functions of logic.py (parse_modified_hour, get_discount_step,      *)
(* round_price) and the per-listing action _execute_item are operators;    *)
(* SpecLogic and SpecItem call them once on arguments drawn from bounded   *)
(* sets, and Spec steps through the listings of a profile run.             *)
(***************************************************************************)
EXTENDS Integers, Sequences, FiniteSets, TLC

\* Number of configured profiles (config.profile).
NumProfiles == 2
\* Largest number of listings on display.
NumItems == 2

\* mercari_price_down._MAX_RETRY_COUNT
_MAX_RETRY_COUNT == 1

\* Exception classes, as far as the handlers tell them apart:
\*   "session"      selenium InvalidSessionIdException
\*   "login_error"  my_lib.store.mercari.exceptions.LoginError
\*   "price_error"  mercari_bot.exceptions.PriceError and its subclasses
\*   "parse_error"  ModifiedTimeParseError
\*   "error"        any other Exception
LaunchOutcome == {"ok", "session", "error"}
LoginOutcome == {"ok", "session", "login_error", "error"}
EnumOutcome == {"ok", "session", "price_error", "parse_error", "error"}
\* What the enumerator does next: it hands a listing to the handlers ("item"),
\* returns at the end of the list ("ok"), or raises.
EnumeratorOutcome == {"item", "ok", "session", "error"}
\* Outcome of an operation on the driver (it may be dead), and of a send.
DriverOutcome == {"ok", "session", "error"}
SendOutcome == {"ok", "error"}

\* Titles handed to the notification functions (the source's titles are
\* Japanese: "Mercari login error", "Mercari price-down error",
\* "Mercari session error").
LoginErrorTitle == "mercari login error"
PriceDownErrorTitle == "mercari price-down error"
SessionErrorTitle == "mercari session error"

VARIABLES
    \* ---- cli.execute ----
    clear_profile_on_browser_error, \* argument (-R)
    notify_log,                     \* argument (-l), log_str_io being set
    topPc,                          \* position in cli.execute
    profileIdx,                     \* index of the loop over config.profile
    ret_code,                       \* accumulator
    progress,                       \* [start, stop]: calls on the progress display
    called,                         \* profiles mercari_price_down.execute was called for
    results,                        \* the codes those calls returned
    \* ---- mercari_price_down.execute / _execute_once (the call in flight) ----
    pc,                             \* position in execute / _execute_once
    attempt,                        \* loop variable of the retry loop
    managers,                       \* the BrowserManager objects created, in order
    exc,                            \* exception in flight ("none" when there is none)
    onceRet,                        \* value _execute_once is returning, <<>> if none
    result,                         \* value execute returned, <<>> if none
    log,                            \* per attempt: outcome of each collaborator call
    enumCalls,                      \* calls of iter_items_on_display
    dumpTitles,                     \* titles of the dump_and_notify_error calls
    slackErrors,                    \* titles of the my_lib.notify.slack.error calls
    profileDeleted,                 \* times the profile directory was deleted
    \* ---- a single call of a function of logic.py or of _execute_item ----
    call,                           \* [fn, args, done, out]; NoCall when there is none
    \* ---- the listings behind one call of execute ----
    args,                           \* [profile, debug_mode] of execute; <<>> when not followed
    site                            \* per listing on display, what the site holds; <<>> when not followed

topVars == <<clear_profile_on_browser_error, notify_log, topPc, profileIdx,
             ret_code, progress, called, results>>
runVars == <<pc, attempt, managers, exc, onceRet, result, log, enumCalls,
             dumpTitles, slackErrors, profileDeleted>>
siteVars == <<args, site>>
vars == <<topVars, runVars, call, siteVars>>

----------------------------------------------------------------------------
\* Helpers

\* BrowserManager(profile_name, data_dir, wait_timeout, clear_profile_on_error)
BrowserManager(clear) ==
    [clear_profile_on_error |-> clear, get_driver |-> "none", quit |-> 0]

\* The record of one attempt (one iteration of the retry loop).
\* report: the steps of the dump_and_notify_error call made in the attempt.
NoReport ==
    [dump_page |-> "none", screenshot |-> "none", page_source |-> "none",
     notify |-> "none"]
NewAttempt ==
    [launch |-> "none", login |-> "none", enum |-> "none", items |-> 0,
     raised_at |-> 0, current_url |-> "none", report |-> NoReport]

\* notify_slack.dump_and_notify_error: dump_page and clean_dump, then the
\* screenshot and the page source, each inside its own try/except giving None,
\* then notify_error_with_page. A step after a raising one does not run.
dump_and_notify_error(dump, shot, src, send) ==
    IF dump # "ok"
       THEN [NoReport EXCEPT !.dump_page = dump]
       ELSE [dump_page |-> dump, screenshot |-> shot, page_source |-> src,
             notify |-> send]

\* What a dump_and_notify_error call does to its caller: "ok" when it returns,
\* else the class of the exception it raises.
ReportOutcome(steps) ==
    IF steps.dump_page # "ok" THEN steps.dump_page
    ELSE IF steps.notify # "ok" THEN steps.notify
    ELSE "ok"

\* The current browser_manager variable of execute.
CurMgr == Len(managers)
CurAttempt == Len(log)

\* BrowserManager.get_driver deletes the profile directory on a launch failure
\* when it was built with clear_profile_on_error.
DeletesProfile(mgr) == mgr.clear_profile_on_error

\* (variant: one retry more than _MAX_RETRY_COUNT)
RetryAllowed_once_more(a) == a <= _MAX_RETRY_COUNT

\* for attempt in range(_MAX_RETRY_COUNT + 1): ... if attempt < _MAX_RETRY_COUNT
RetryAllowed(a) == a < _MAX_RETRY_COUNT

\* except selenium.common.exceptions.InvalidSessionIdException (in execute)
Caught(e) == e = "session"

\* except selenium.common.exceptions.InvalidSessionIdException: raise
\* (in _execute_once)
Reraised(e) == e = "session"

\* The title the two reporting handlers of _execute_once pass.
ErrorTitle(e) == IF e = "login_error" THEN LoginErrorTitle ELSE PriceDownErrorTitle

\* ret_code += ...
\* (variant: = instead of +=)
Accumulate_assign(rc, r) == r
Accumulate(rc, r) == rc + r

\* Where _execute_once goes after login returned / raised.
\* (variant: the enumeration is entered whatever login did)
AfterLogin_always(o) == "enum"
AfterLogin(o) == IF o = "ok" THEN "enum" ELSE "except"

----------------------------------------------------------------------------
\* No function is being called on its own.
NoCall == [fn |-> "none", args |-> <<>>, done |-> FALSE, out |-> <<>>]

\* cli.execute has not started yet.
InitRun ==
    /\ clear_profile_on_browser_error \in BOOLEAN
    /\ notify_log \in BOOLEAN
    /\ topPc = "start"
    /\ profileIdx = 1
    /\ ret_code = 0
    /\ progress = [start |-> 0, stop |-> 0]
    /\ called = <<>>
    /\ results = <<>>
    /\ pc = "idle"
    /\ attempt = 0
    /\ managers = <<>>
    /\ exc = "none"
    /\ onceRet = <<>>
    /\ result = <<>>
    /\ log = <<>>
    /\ enumCalls = 0
    /\ dumpTitles = <<>>
    /\ slackErrors = <<>>
    /\ profileDeleted = 0
    /\ args = <<>>
    /\ site = <<>>

Init ==
    /\ InitRun
    /\ call = NoCall

----------------------------------------------------------------------------
\* logic.py: parse_modified_hour, get_discount_step, round_price
\*
\* A text is a sequence of characters. The Japanese characters the patterns
\* are made of are written by their readings:
\*   "byou" (second), "fun" (minute), "ji" "kan" (hour), "nichi" (day),
\*   "ka" "getsu" (month), "han" "toshi" "i" "jou" (half a year or more),
\*   "mae" (ago).

Digits == {"0", "1", "2", "3", "4", "5", "6", "7", "8", "9"}

\* str.isdigit, on one character
isdigit(c) == c \in Digits

DigitVal(c) ==
    CASE c = "0" -> 0 [] c = "1" -> 1 [] c = "2" -> 2 [] c = "3" -> 3
      [] c = "4" -> 4 [] c = "5" -> 5 [] c = "6" -> 6 [] c = "7" -> 7
      [] c = "8" -> 8 [] c = "9" -> 9

\* "".join(filter(str.isdigit, text))
FilterDigits(text) == SelectSeq(text, isdigit)

\* int(s) for a non-empty string of digits (int("") raises ValueError)
RECURSIVE int(_)
int(s) ==
    IF s = <<>> THEN 0
    ELSE int(SubSeq(s, 1, Len(s) - 1)) * 10 + DigitVal(s[Len(s)])

\* re.search(pattern, text) for a pattern that is a plain string
search(pattern, text) ==
    \E i \in 1..(Len(text) - Len(pattern) + 1) :
        SubSeq(text, i, i + Len(pattern) - 1) = pattern

SecondsAgo == <<"byou", "mae">>
MinutesAgo == <<"fun", "mae">>
HoursAgo == <<"ji", "kan", "mae">>
DaysAgo == <<"nichi", "mae">>
MonthsAgo == <<"ka", "getsu", "mae">>
HalfYearAgo == <<"han", "toshi", "i", "jou", "mae">>

\* What a call does: it returns a value or raises.
Return(v) == [kind |-> "return", value |-> v]
ModifiedTimeParseError(text) == [kind |-> "ModifiedTimeParseError", text |-> text]
ValueError == [kind |-> "ValueError"]

\* int("".join(filter(str.isdigit, text))) * factor
DigitsTimes(text, factor) ==
    IF FilterDigits(text) = <<>> THEN ValueError
    ELSE Return(int(FilterDigits(text)) * factor)

\* (variant: the day pattern is tried before the hour pattern)
parse_modified_hour_days_first(text) ==
    IF search(SecondsAgo, text) \/ search(MinutesAgo, text) THEN Return(0)
    ELSE IF search(DaysAgo, text) THEN DigitsTimes(text, 24)
    ELSE IF search(HoursAgo, text) THEN DigitsTimes(text, 1)
    ELSE IF search(MonthsAgo, text) THEN DigitsTimes(text, 24 * 30)
    ELSE IF search(HalfYearAgo, text) THEN Return(24 * 30 * 6)
    ELSE ModifiedTimeParseError(text)

\* (variant: a text without any pattern counts as just modified)
parse_modified_hour_default(text) ==
    IF search(SecondsAgo, text) \/ search(MinutesAgo, text) THEN Return(0)
    ELSE IF search(HoursAgo, text) THEN DigitsTimes(text, 1)
    ELSE IF search(DaysAgo, text) THEN DigitsTimes(text, 24)
    ELSE IF search(MonthsAgo, text) THEN DigitsTimes(text, 24 * 30)
    ELSE IF search(HalfYearAgo, text) THEN Return(24 * 30 * 6)
    ELSE Return(0)

\* logic.parse_modified_hour
parse_modified_hour(text) ==
    IF search(SecondsAgo, text) \/ search(MinutesAgo, text) THEN Return(0)
    ELSE IF search(HoursAgo, text) THEN DigitsTimes(text, 1)
    ELSE IF search(DaysAgo, text) THEN DigitsTimes(text, 24)
    ELSE IF search(MonthsAgo, text) THEN DigitsTimes(text, 24 * 30)
    ELSE IF search(HalfYearAgo, text) THEN Return(24 * 30 * 6)
    ELSE ModifiedTimeParseError(text)

\* A discount rule: config.DiscountConfig
DiscountConfig(f, s, t) == [favorite_count |-> f, step |-> s, threshold |-> t]

\* Insertion of a rule behind every rule whose key is not smaller.
RECURSIVE InsertDesc(_, _)
InsertDesc(ordered, r) ==
    IF ordered = <<>> THEN <<r>>
    ELSE IF Head(ordered).favorite_count >= r.favorite_count
            THEN <<Head(ordered)>> \o InsertDesc(Tail(ordered), r)
            ELSE <<r>> \o ordered

\* (variant: the rules are scanned in the order of the configuration)
sorted_not(discount) == discount

\* sorted(profile.discount, key=lambda x: x.favorite_count, reverse=True):
\* descending by key, and stable (rules with equal keys keep their order).
RECURSIVE sorted(_)
sorted(discount) ==
    IF discount = <<>> THEN <<>>
    ELSE InsertDesc(sorted(SubSeq(discount, 1, Len(discount) - 1)),
                    discount[Len(discount)])

\* (variant: a rule whose threshold the price misses is passed over)
RECURSIVE scan_fallthrough(_, _, _)
scan_fallthrough(rules, price, favorite_count) ==
    IF rules = <<>> THEN <<>>
    ELSE IF favorite_count >= Head(rules).favorite_count
               /\ price >= Head(rules).threshold
            THEN <<Head(rules).step>>
            ELSE scan_fallthrough(Tail(rules), price, favorite_count)

\* (variant: the threshold is compared with the price after the discount)
RECURSIVE scan_after_discount(_, _, _)
scan_after_discount(rules, price, favorite_count) ==
    IF rules = <<>> THEN <<>>
    ELSE IF favorite_count >= Head(rules).favorite_count
            THEN IF price - Head(rules).step >= Head(rules).threshold
                    THEN <<Head(rules).step>>
                    ELSE <<>>
            ELSE scan_after_discount(Tail(rules), price, favorite_count)

\* The for loop of get_discount_step: None is <<>>, a step s is <<s>>.
RECURSIVE scan(_, _, _)
scan(rules, price, favorite_count) ==
    IF rules = <<>> THEN <<>>
    ELSE IF favorite_count >= Head(rules).favorite_count
            THEN IF price >= Head(rules).threshold
                    THEN <<Head(rules).step>>
                    ELSE <<>>
            ELSE scan(Tail(rules), price, favorite_count)

\* logic.get_discount_step (shipping_fee is only logged)
get_discount_step(profile, price, shipping_fee, favorite_count) ==
    scan(sorted(profile.discount), price, favorite_count)

\* (variant: rounding to the nearest ten)
round_price_nearest(price) == ((price + 5) \div 10) * 10

\* (variant: rounding up to the next ten)
round_price_up(price) == ((price + 9) \div 10) * 10

\* logic.round_price: (price // 10) * 10, // rounding towards minus infinity
round_price(price) == (price \div 10) * 10

\* ---- the inputs the three functions are called with ----

\* Longest text, counted in the pieces of TextParts it is made of.
MaxParts == 3
\* Longest list of discount rules.
MaxRules == 2
\* Largest absolute value of a price handed to round_price.
MaxRoundPrice == 60

TextParts ==
    {<<"0">>, <<"1">>, <<"2">>, <<"x">>, <<"mae">>, <<"ji", "kan">>,
     SecondsAgo, MinutesAgo, HoursAgo, DaysAgo, MonthsAgo, HalfYearAgo}

RECURSIVE Concat(_)
Concat(parts) ==
    IF parts = <<>> THEN <<>> ELSE Head(parts) \o Concat(Tail(parts))

Texts ==
    UNION {{Concat(ps) : ps \in [1..n -> TextParts]} : n \in 0..MaxParts}

DiscountRules ==
    {DiscountConfig(f, s, t) : f \in {0, 1, 2}, s \in {10, 20}, t \in {100, 200}}

RuleLists == UNION {[1..n -> DiscountRules] : n \in 0..MaxRules}

ParseCalls ==
    {[fn |-> "parse_modified_hour", args |-> [text |-> t], done |-> FALSE,
      out |-> <<>>] : t \in Texts}

DiscountCalls ==
    {[fn |-> "get_discount_step",
      args |-> [profile |-> [discount |-> d], price |-> p, shipping_fee |-> sf,
                favorite_count |-> f],
      done |-> FALSE, out |-> <<>>] :
        d \in RuleLists, p \in {90, 100, 150, 200}, sf \in {0, 50}, f \in 0..2}

RoundCalls ==
    {[fn |-> "round_price", args |-> [price |-> p], done |-> FALSE,
      out |-> <<>>] : p \in (-MaxRoundPrice)..MaxRoundPrice}

InitLogic ==
    /\ InitRun
    /\ ~clear_profile_on_browser_error
    /\ ~notify_log
    /\ call \in ParseCalls \cup DiscountCalls \cup RoundCalls

call_parse_modified_hour ==
    /\ call.fn = "parse_modified_hour"
    /\ ~call.done
    /\ call' = [call EXCEPT !.done = TRUE,
                            !.out = parse_modified_hour(call.args.text)]
    /\ UNCHANGED <<topVars, runVars, siteVars>>

call_get_discount_step ==
    /\ call.fn = "get_discount_step"
    /\ ~call.done
    /\ call' = [call EXCEPT !.done = TRUE,
                            !.out = get_discount_step(call.args.profile,
                                                      call.args.price,
                                                      call.args.shipping_fee,
                                                      call.args.favorite_count)]
    /\ UNCHANGED <<topVars, runVars, siteVars>>

call_round_price ==
    /\ call.fn = "round_price"
    /\ ~call.done
    /\ call' = [call EXCEPT !.done = TRUE, !.out = round_price(call.args.price)]
    /\ UNCHANGED <<topVars, runVars, siteVars>>

NextLogic ==
    \/ call_parse_modified_hour
    \/ call_get_discount_step
    \/ call_round_price

SpecLogic == InitLogic /\ [][NextLogic]_vars

----------------------------------------------------------------------------
\* mercari_price_down._execute_item
\*
\* The driver argument is the page as the site serves it for the listing:
\*   modified_text  text of the "modified ... ago" paragraph
\*   time_sale      the "end the timed sale" button exists
\*   auction        the auction price option is checked
\*   shipping_fee   <<>> if there is no shipping-fee element, else <<text>>
\*   value          value attribute of the price input: <<>> for None, else <<text>>
\*   total          text of the price shown after the edit and the reload
\*   fault          the driver operation that fails, "none" if none does

\* text.replace(",", "") and re.sub(",", "", text)
IsNotComma(c) == c # ","
replace_comma(text) == SelectSeq(text, IsNotComma)

\* int(text) for the texts a page can hold: digits, or ValueError
to_int(text) ==
    IF text # <<>> /\ \A i \in 1..Len(text) : isdigit(text[i])
       THEN Return(int(text))
       ELSE ValueError

DigitChar(d) ==
    CASE d = 0 -> "0" [] d = 1 -> "1" [] d = 2 -> "2" [] d = 3 -> "3"
      [] d = 4 -> "4" [] d = 5 -> "5" [] d = 6 -> "6" [] d = 7 -> "7"
      [] d = 8 -> "8" [] d = 9 -> "9"

\* str(n)
RECURSIVE str(_)
str(n) ==
    IF n < 0 THEN <<"-">> \o str(-n)
    ELSE IF n < 10 THEN <<DigitChar(n)>>
    ELSE str(n \div 10) \o <<DigitChar(n % 10)>>

\* What a call of _execute_item did: how it ended (kind; reason when it
\* returned; expected and actual of a price error), the price it computed,
\* what it sent to the price input and how often it clicked the change button.
ItemResult(kind, reason, price, expected, actual, send_keys, change_clicks) ==
    [kind |-> kind, reason |-> reason, price |-> price, expected |-> expected,
     actual |-> actual, send_keys |-> send_keys, change_clicks |-> change_clicks]

\* return / raise before the price is known
Skip(reason) == ItemResult("return", reason, <<>>, <<>>, <<>>, <<>>, 0)
Raise(kind) == ItemResult(kind, "", <<>>, <<>>, <<>>, <<>>, 0)

\* shipping_fee = int(<element>.text.replace(",", "")) if the element exists else 0
read_shipping_fee(driver) ==
    IF driver.shipping_fee = <<>> THEN Return(0)
    ELSE to_int(replace_comma(driver.shipping_fee[1]))

\* (variant: the value read is not compared with the price)
check_price_unchecked(price, value_attr) ==
    IF value_attr = <<>> THEN Raise("PriceRetrievalError")
    ELSE IF to_int(value_attr[1]).kind # "return" THEN Raise("ValueError")
    ELSE Return(to_int(value_attr[1]).value)

\* value_attr = <price input>.get_attribute("value") ... raise PriceChangedError
check_price(price, value_attr) ==
    IF value_attr = <<>> THEN Raise("PriceRetrievalError")
    ELSE IF to_int(value_attr[1]).kind # "return" THEN Raise("ValueError")
    ELSE IF to_int(value_attr[1]).value # price
            THEN ItemResult("PriceChangedError", "", <<price>>, <<price>>,
                            <<to_int(value_attr[1]).value>>, <<>>, 0)
            ELSE Return(to_int(value_attr[1]).value)

\* (variant: the debug mode is ignored)
new_price_discounted(price, discount_step, debug_mode) ==
    round_price(price - discount_step)

\* (variant: the discounted price is not rounded)
new_price_unrounded(price, discount_step, debug_mode) ==
    IF debug_mode THEN price ELSE price - discount_step

\* new_price = price if debug_mode else round_price(price - discount_step)
new_price(price, discount_step, debug_mode) ==
    IF debug_mode THEN price ELSE round_price(price - discount_step)

\* price_input.send_keys(CONTROL + "a"), (BACK_SPACE), (str(new_price))
send_keys(np) == <<<<"CONTROL+a">>, <<"BACK_SPACE">>, str(np)>>

\* (variant: the price shown is compared with the new price alone)
verify_without_fee(price, np, shipping_fee, total) ==
    IF to_int(replace_comma(total)).kind # "return"
       THEN ItemResult("ValueError", "", <<price>>, <<>>, <<>>, send_keys(np), 1)
    ELSE IF to_int(replace_comma(total)).value # np
       THEN ItemResult("PriceVerificationError", "", <<price>>,
                       <<np>>, <<to_int(replace_comma(total)).value>>, send_keys(np), 1)
    ELSE ItemResult("return", "changed", <<price>>, <<>>, <<>>, send_keys(np), 1)

\* new_total_price = int(re.sub(",", "", <price shown>.text)) ... raise
\* PriceVerificationError(expected=new_price + shipping_fee, actual=...)
verify(price, np, shipping_fee, total) ==
    IF to_int(replace_comma(total)).kind # "return"
       THEN ItemResult("ValueError", "", <<price>>, <<>>, <<>>, send_keys(np), 1)
    ELSE IF to_int(replace_comma(total)).value # np + shipping_fee
       THEN ItemResult("PriceVerificationError", "", <<price>>,
                       <<np + shipping_fee>>,
                       <<to_int(replace_comma(total)).value>>, send_keys(np), 1)
    ELSE ItemResult("return", "changed", <<price>>, <<>>, <<>>, send_keys(np), 1)

\* From the discount decision to the end.
decide_and_change(driver, profile, item, debug_mode, price, shipping_fee) ==
    LET discount_step == get_discount_step(profile, price, shipping_fee, item.favorite)
    IN  IF discount_step = <<>>
           THEN ItemResult("return", "no_discount", <<price>>, <<>>, <<>>, <<>>, 0)
        ELSE LET np == new_price(price, discount_step[1], debug_mode)
             IN  IF driver.fault = "reload"
                    THEN ItemResult("InvalidSessionIdException", "", <<price>>,
                                    <<>>, <<>>, send_keys(np), 1)
                    ELSE verify(price, np, shipping_fee, driver.total)

\* From the edit page to the discount decision.
edit_page(driver, profile, item, debug_mode) ==
    IF driver.fault = "edit" THEN Raise("TimeoutException")
    ELSE IF read_shipping_fee(driver).kind # "return" THEN Raise("ValueError")
    ELSE LET shipping_fee == read_shipping_fee(driver).value
             price == item.price - shipping_fee
             cur_price == check_price(price, driver.value)
         IN  IF cur_price.kind # "return" THEN cur_price
             ELSE decide_and_change(driver, profile, item, debug_mode, price,
                                    shipping_fee)

\* (variant: a listing modified exactly interval.hour hours ago is skipped)
is_fresh_inclusive(modified_hour, profile) == modified_hour <= profile.interval.hour

\* if modified_hour < profile.interval.hour: ... return
is_fresh(modified_hour, profile) == modified_hour < profile.interval.hour

\* mercari_price_down._execute_item (wait is part of driver)
_execute_item(driver, profile, item, debug_mode) ==
    IF item.is_stop # 0 THEN Skip("stopped")
    ELSE IF driver.fault = "modified" THEN Raise("InvalidSessionIdException")
    ELSE LET modified_hour == parse_modified_hour(driver.modified_text)
         IN  IF modified_hour.kind # "return" THEN Raise(modified_hour.kind)
             ELSE IF is_fresh(modified_hour.value, profile) THEN Skip("fresh")
             ELSE IF driver.time_sale THEN Skip("time_sale")
             ELSE IF driver.auction THEN Skip("auction")
             ELSE edit_page(driver, profile, item, debug_mode)

\* ---- the inputs _execute_item is called with ----

\* The listing's prices are 300 + 1000 * k for k in 1..MaxThousands.
MaxThousands == 2

ItemPrices == {300 + 1000 * k : k \in 1..MaxThousands}

Profiles ==
    {[discount |-> <<DiscountConfig(1, 400, 200), DiscountConfig(0, 105, 1250)>>,
      interval |-> [hour |-> h]] : h \in {0, 24}}

Items ==
    {[price |-> p, favorite |-> f, is_stop |-> st] :
        p \in ItemPrices, f \in {0, 1}, st \in {0, 1}}

ModifiedTexts == {<<"1">> \o HoursAgo, <<"1">> \o DaysAgo, <<"x">>}

\* Texts of prices, as the site shows them (with a thousands separator).
Shown(n) ==
    IF n < 1000 THEN str(n)
    ELSE str(n \div 1000) \o <<",">> \o SubSeq(str(1000 + (n % 1000)), 2, 4)

Pages ==
    {[modified_text |-> m, time_sale |-> ts, auction |-> au, shipping_fee |-> sf,
      value |-> v, total |-> t, fault |-> ft] :
        m \in ModifiedTexts, ts \in BOOLEAN, au \in BOOLEAN,
        sf \in {<<>>, <<Shown(1000)>>},
        v \in {<<>>, <<<<>>>>} \cup {<<str(p)>> : p \in ItemPrices \cup {300}},
        t \in {Shown(1190), Shown(2190), Shown(1300), Shown(2300), <<"x">>},
        ft \in {"none", "modified", "edit", "reload"}}

ItemCalls ==
    {[fn |-> "_execute_item",
      args |-> [driver |-> d, profile |-> pr, item |-> it, debug_mode |-> dm],
      done |-> FALSE, out |-> <<>>] :
        d \in Pages, pr \in Profiles, it \in Items, dm \in BOOLEAN}

InitItem ==
    /\ InitRun
    /\ ~clear_profile_on_browser_error
    /\ ~notify_log
    /\ call \in ItemCalls

call_execute_item ==
    /\ call.fn = "_execute_item"
    /\ ~call.done
    /\ call' = [call EXCEPT !.done = TRUE,
                            !.out = _execute_item(call.args.driver,
                                                  call.args.profile,
                                                  call.args.item,
                                                  call.args.debug_mode)]
    /\ UNCHANGED <<topVars, runVars, siteVars>>

NextItem == call_execute_item

SpecItem == InitItem /\ [][NextItem]_vars

\* The ways a call of _execute_item can end: "return", or the exception.
ItemKinds ==
    {_execute_item(c.args.driver, c.args.profile, c.args.item,
                   c.args.debug_mode).kind : c \in ItemCalls}

\* The class of an exception, as the handlers of _execute_once and execute
\* tell them apart.
ExceptionClass(kind) ==
    CASE kind = "InvalidSessionIdException" -> "session"
      [] kind \in {"PriceRetrievalError", "PriceChangedError",
                   "PriceVerificationError"} -> "price_error"
      [] kind = "ModifiedTimeParseError" -> "parse_error"
      [] OTHER -> "error"

----------------------------------------------------------------------------
\* mercari_price_down.execute / _execute_once

\* browser_manager.get_driver() in _execute_once. A raise is logged and
\* re-raised: it leaves _execute_once before the try/finally that quits.
get_driver ==
    /\ pc = "launch"
    /\ \E o \in LaunchOutcome :
        /\ log' = Append(log, [NewAttempt EXCEPT !.launch = o])
        /\ managers' = [managers EXCEPT ![CurMgr].get_driver = o]
        /\ IF o = "ok"
              THEN /\ pc' = "login"
                   /\ UNCHANGED <<exc, profileDeleted>>
              ELSE /\ pc' = "handler"
                   /\ exc' = o
                   /\ profileDeleted' =
                        IF DeletesProfile(managers[CurMgr])
                           THEN profileDeleted + 1 ELSE profileDeleted
    /\ UNCHANGED <<attempt, onceRet, result, enumCalls, dumpTitles, slackErrors>>
    /\ UNCHANGED topVars
    /\ UNCHANGED <<call, siteVars>>

\* my_lib.store.mercari.login.execute(...)
login_execute ==
    /\ pc = "login"
    /\ \E o \in LoginOutcome :
        /\ log' = [log EXCEPT ![CurAttempt].login = o]
        /\ pc' = AfterLogin(o)
        /\ exc' = IF o = "ok" THEN exc ELSE o
    /\ UNCHANGED <<attempt, managers, onceRet, result, enumCalls, dumpTitles,
                   slackErrors, profileDeleted>>
    /\ UNCHANGED topVars
    /\ UNCHANGED <<call, siteVars>>

\* my_lib.store.mercari.scrape.iter_items_on_display(driver, wait, debug_mode,
\* [item_handler], progress_observer=progress) is called.
iter_items_on_display ==
    /\ pc = "enum"
    /\ log' = [log EXCEPT ![CurAttempt].enum = "running"]
    /\ enumCalls' = enumCalls + 1
    /\ pc' = "listing"
    /\ UNCHANGED <<attempt, managers, exc, onceRet, result, dumpTitles,
                   slackErrors, profileDeleted>>
    /\ UNCHANGED topVars
    /\ UNCHANGED <<call, siteVars>>

\* The enumerator's loop over the listings on display: it hands the next
\* listing to item_handler, or it has reached the end of the list and
\* returns (then _execute_once returns 0), or it raises itself.
next_listing ==
    /\ pc = "listing"
    /\ \E o \in EnumeratorOutcome :
        \/ /\ o = "item"
           /\ log[CurAttempt].items < NumItems
           /\ log' = [log EXCEPT ![CurAttempt].items = @ + 1]
           /\ pc' = "item"
           /\ UNCHANGED <<exc, onceRet>>
        \/ /\ o = "ok"
           /\ log' = [log EXCEPT ![CurAttempt].enum = o]
           /\ onceRet' = <<0>>
           /\ pc' = "finally"
           /\ UNCHANGED exc
        \/ /\ o \notin {"item", "ok"}
           /\ log' = [log EXCEPT ![CurAttempt].enum = o]
           /\ exc' = o
           /\ pc' = "except"
           /\ UNCHANGED onceRet
    /\ UNCHANGED <<attempt, managers, result, enumCalls, dumpTitles, slackErrors,
                   profileDeleted>>
    /\ UNCHANGED topVars
    /\ UNCHANGED <<call, siteVars>>

\* item_handler(driver, wait, item, debug_mode): _execute_item(driver, wait,
\* profile, item, debug_mode). When it returns the enumerator goes on; what
\* it raises leaves item_handler and the enumerator.
item_handler ==
    /\ pc = "item"
    /\ \E kind \in ItemKinds :
        IF kind = "return"
           THEN /\ pc' = "listing"
                /\ UNCHANGED <<log, exc>>
           ELSE /\ log' = [log EXCEPT ![CurAttempt].enum = ExceptionClass(kind),
                                      ![CurAttempt].raised_at = log[CurAttempt].items]
                /\ exc' = ExceptionClass(kind)
                /\ pc' = "except"
    /\ UNCHANGED <<attempt, managers, onceRet, result, enumCalls, dumpTitles,
                   slackErrors, profileDeleted>>
    /\ UNCHANGED topVars
    /\ UNCHANGED <<call, siteVars>>

\* (variant: the re-raised session error leaves without the finally clause)
reraise_session_past_finally ==
    /\ pc = "except"
    /\ Reraised(exc)
    /\ pc' = "handler"
    /\ UNCHANGED <<attempt, managers, exc, onceRet, result, log, enumCalls,
                   dumpTitles, slackErrors, profileDeleted>>
    /\ UNCHANGED topVars
    /\ UNCHANGED <<call, siteVars>>

\* except InvalidSessionIdException: logging.warning(...); raise
reraise_session ==
    /\ pc = "except"
    /\ Reraised(exc)
    /\ pc' = "finally"
    /\ UNCHANGED <<attempt, managers, exc, onceRet, result, log, enumCalls,
                   dumpTitles, slackErrors, profileDeleted>>
    /\ UNCHANGED topVars
    /\ UNCHANGED <<call, siteVars>>

\* except LoginError / except Exception: logging.exception(..., driver.current_url),
\* set the error status, dump_and_notify_error(config.slack, title, ...),
\* return -1. A raise inside the handler (reading current_url, or out of
\* dump_and_notify_error) replaces the exception in flight.
report_error ==
    /\ pc = "except"
    /\ ~Reraised(exc)
    /\ \E url \in DriverOutcome, dump \in DriverOutcome, shot \in DriverOutcome,
          src \in DriverOutcome, send \in SendOutcome :
        LET steps == IF url = "ok"
                        THEN dump_and_notify_error(dump, shot, src, send)
                        ELSE NoReport
            o == IF url = "ok" THEN ReportOutcome(steps) ELSE url
        IN  /\ dumpTitles' = IF url = "ok"
                                THEN Append(dumpTitles, ErrorTitle(exc))
                                ELSE dumpTitles
            /\ log' = [log EXCEPT ![CurAttempt].current_url = url,
                                  ![CurAttempt].report = steps]
            /\ IF o = "ok"
                  THEN /\ onceRet' = <<-1>>
                       /\ exc' = "none"
                  ELSE /\ exc' = o
                       /\ UNCHANGED onceRet
    /\ pc' = "finally"
    /\ UNCHANGED <<attempt, managers, result, enumCalls, slackErrors, profileDeleted>>
    /\ UNCHANGED topVars
    /\ UNCHANGED <<call, siteVars>>

\* (variant: execute does not return the value of _execute_once, so the loop
\* goes on to its next iteration and falls out to the final return -1)
quit_continue ==
    /\ pc = "finally"
    /\ managers' = [managers EXCEPT ![CurMgr].quit = @ + 1]
    /\ IF exc = "none"
          THEN IF attempt < _MAX_RETRY_COUNT
                  THEN /\ attempt' = attempt + 1
                       /\ pc' = "launch"
                       /\ onceRet' = <<>>
                       /\ UNCHANGED result
                  ELSE /\ result' = <<-1>>
                       /\ pc' = "returned"
                       /\ UNCHANGED <<attempt, onceRet>>
          ELSE /\ pc' = "handler"
               /\ UNCHANGED <<attempt, onceRet, result>>
    /\ UNCHANGED <<exc, log, enumCalls, dumpTitles, slackErrors, profileDeleted>>
    /\ UNCHANGED topVars
    /\ UNCHANGED <<call, siteVars>>

\* (variant: quit at the end of the try body instead of in a finally clause)
quit_unless_raising ==
    /\ pc = "finally"
    /\ managers' = IF exc = "none"
                      THEN [managers EXCEPT ![CurMgr].quit = @ + 1]
                      ELSE managers
    /\ IF exc = "none"
          THEN /\ result' = onceRet
               /\ pc' = "returned"
          ELSE /\ pc' = "handler"
               /\ UNCHANGED result
    /\ UNCHANGED <<attempt, exc, onceRet, log, enumCalls, dumpTitles, slackErrors,
                   profileDeleted>>
    /\ UNCHANGED topVars
    /\ UNCHANGED <<call, siteVars>>

\* finally: browser_manager.quit(); then _execute_once returns (and execute
\* returns that value) or the exception in flight reaches execute's handler.
quit ==
    /\ pc = "finally"
    /\ managers' = [managers EXCEPT ![CurMgr].quit = @ + 1]
    /\ IF exc = "none"
          THEN /\ result' = onceRet
               /\ pc' = "returned"
          ELSE /\ pc' = "handler"
               /\ UNCHANGED result
    /\ UNCHANGED <<attempt, exc, onceRet, log, enumCalls, dumpTitles, slackErrors,
                   profileDeleted>>
    /\ UNCHANGED topVars
    /\ UNCHANGED <<call, siteVars>>

\* An exception execute's except clause does not name leaves execute.
execute_propagate ==
    /\ pc = "handler"
    /\ ~Caught(exc)
    /\ pc' = "raised"
    /\ UNCHANGED <<attempt, managers, exc, onceRet, result, log, enumCalls,
                   dumpTitles, slackErrors, profileDeleted>>
    /\ UNCHANGED topVars
    /\ UNCHANGED <<call, siteVars>>

\* except InvalidSessionIdException, attempt < _MAX_RETRY_COUNT: a new
\* BrowserManager with clear_profile_on_error=True, then the next iteration.
execute_retry ==
    /\ pc = "handler"
    /\ Caught(exc)
    /\ RetryAllowed(attempt)
    /\ managers' = Append(managers, BrowserManager(TRUE))
    /\ attempt' = attempt + 1
    /\ exc' = "none"
    /\ pc' = "launch"
    /\ UNCHANGED <<onceRet, result, log, enumCalls, dumpTitles, slackErrors,
                   profileDeleted>>
    /\ UNCHANGED topVars
    /\ UNCHANGED <<call, siteVars>>

\* except InvalidSessionIdException, no retry left: my_lib.notify.slack.error
\* (text only), return -1.
execute_exhausted ==
    /\ pc = "handler"
    /\ Caught(exc)
    /\ ~RetryAllowed(attempt)
    /\ slackErrors' = Append(slackErrors, SessionErrorTitle)
    /\ \E o \in SendOutcome :
        IF o = "ok"
           THEN /\ result' = <<-1>>
                /\ exc' = "none"
                /\ pc' = "returned"
           ELSE /\ exc' = o
                /\ pc' = "raised"
                /\ UNCHANGED result
    /\ UNCHANGED <<attempt, managers, onceRet, log, enumCalls, dumpTitles,
                   profileDeleted>>
    /\ UNCHANGED topVars
    /\ UNCHANGED <<call, siteVars>>

----------------------------------------------------------------------------
\* cli.execute

\* ret_code = 0; progress = create_progress_display(); progress.start()
cli_start ==
    /\ topPc = "start"
    /\ progress' = [progress EXCEPT !.start = @ + 1]
    /\ topPc' = "loop"
    /\ UNCHANGED <<clear_profile_on_browser_error, notify_log, profileIdx, ret_code,
                   called, results>>
    /\ UNCHANGED runVars
    /\ UNCHANGED <<call, siteVars>>

\* for profile in config.profile: mercari_price_down.execute(...) is entered:
\* the first BrowserManager is built with the caller's flag.
cli_call_profile ==
    /\ topPc = "loop"
    /\ profileIdx <= NumProfiles
    /\ topPc' = "call"
    /\ called' = Append(called, profileIdx)
    /\ pc' = "launch"
    /\ attempt' = 0
    /\ managers' = <<BrowserManager(clear_profile_on_browser_error)>>
    /\ exc' = "none"
    /\ onceRet' = <<>>
    /\ result' = <<>>
    /\ log' = <<>>
    /\ enumCalls' = 0
    /\ dumpTitles' = <<>>
    /\ slackErrors' = <<>>
    /\ profileDeleted' = 0
    /\ UNCHANGED <<clear_profile_on_browser_error, notify_log, profileIdx, ret_code,
                   progress, results>>
    /\ UNCHANGED <<call, siteVars>>

\* (variant: the loop is left at the first failed profile)
cli_profile_returned_break ==
    /\ topPc = "call"
    /\ pc = "returned"
    /\ ret_code' = Accumulate(ret_code, result[1])
    /\ results' = Append(results, result[1])
    /\ profileIdx' = IF result[1] = 0 THEN profileIdx + 1 ELSE NumProfiles + 1
    /\ topPc' = "loop"
    /\ pc' = "idle"
    /\ UNCHANGED <<clear_profile_on_browser_error, notify_log, progress, called>>
    /\ UNCHANGED <<attempt, managers, exc, onceRet, result, log, enumCalls,
                   dumpTitles, slackErrors, profileDeleted>>
    /\ UNCHANGED <<call, siteVars>>

\* ret_code += <the value the profile run returned>
cli_profile_returned ==
    /\ topPc = "call"
    /\ pc = "returned"
    /\ ret_code' = Accumulate(ret_code, result[1])
    /\ results' = Append(results, result[1])
    /\ profileIdx' = profileIdx + 1
    /\ topPc' = "loop"
    /\ pc' = "idle"
    /\ UNCHANGED <<clear_profile_on_browser_error, notify_log, progress, called>>
    /\ UNCHANGED <<attempt, managers, exc, onceRet, result, log, enumCalls,
                   dumpTitles, slackErrors, profileDeleted>>
    /\ UNCHANGED <<call, siteVars>>

\* (variant: the loop is not inside try/finally)
cli_profile_raised_no_finally ==
    /\ topPc = "call"
    /\ pc = "raised"
    /\ topPc' = "raised"
    /\ UNCHANGED <<clear_profile_on_browser_error, notify_log, profileIdx, ret_code,
                   progress, called, results>>
    /\ UNCHANGED runVars
    /\ UNCHANGED <<call, siteVars>>

\* The profile run raised: the loop has no except clause; finally: progress.stop()
cli_profile_raised ==
    /\ topPc = "call"
    /\ pc = "raised"
    /\ progress' = [progress EXCEPT !.stop = @ + 1]
    /\ topPc' = "raised"
    /\ UNCHANGED <<clear_profile_on_browser_error, notify_log, profileIdx, ret_code,
                   called, results>>
    /\ UNCHANGED runVars
    /\ UNCHANGED <<call, siteVars>>

\* The loop is exhausted: set_status(...), finally: progress.stop()
cli_loop_end ==
    /\ topPc = "loop"
    /\ profileIdx > NumProfiles
    /\ progress' = [progress EXCEPT !.stop = @ + 1]
    /\ topPc' = "finish"
    /\ UNCHANGED <<clear_profile_on_browser_error, notify_log, profileIdx, ret_code,
                   called, results>>
    /\ UNCHANGED runVars
    /\ UNCHANGED <<call, siteVars>>

\* if notify_log and log_str_io is not None: mail.send(...); slack.info(...)
\* return ret_code
cli_notify_return ==
    /\ topPc = "finish"
    /\ \E o \in SendOutcome :
        topPc' = IF notify_log /\ o = "error" THEN "raised" ELSE "returned"
    /\ UNCHANGED <<clear_profile_on_browser_error, notify_log, profileIdx, ret_code,
                   progress, called, results>>
    /\ UNCHANGED runVars
    /\ UNCHANGED <<call, siteVars>>

----------------------------------------------------------------------------
Next ==
    \/ cli_start
    \/ cli_call_profile
    \/ cli_profile_returned
    \/ cli_profile_raised
    \/ cli_loop_end
    \/ cli_notify_return
    \/ get_driver
    \/ login_execute
    \/ iter_items_on_display
    \/ next_listing
    \/ item_handler
    \/ reraise_session
    \/ report_error
    \/ quit
    \/ execute_propagate
    \/ execute_retry
    \/ execute_exhausted

Spec == Init /\ [][Next]_vars

----------------------------------------------------------------------------
\* One call of mercari_price_down.execute, followed to its end

\* The state in which cli.execute has entered execute for the first profile.
ExecuteEntered ==
    /\ clear_profile_on_browser_error \in BOOLEAN
    /\ notify_log \in BOOLEAN
    /\ topPc = "call"
    /\ profileIdx = 1
    /\ ret_code = 0
    /\ progress = [start |-> 1, stop |-> 0]
    /\ called = <<1>>
    /\ results = <<>>
    /\ pc = "launch"
    /\ attempt = 0
    /\ managers = <<BrowserManager(clear_profile_on_browser_error)>>
    /\ exc = "none"
    /\ onceRet = <<>>
    /\ result = <<>>
    /\ log = <<>>
    /\ enumCalls = 0
    /\ dumpTitles = <<>>
    /\ slackErrors = <<>>
    /\ profileDeleted = 0
    /\ call = NoCall

InitExecute ==
    /\ ExecuteEntered
    /\ args = <<>>
    /\ site = <<>>

NextExecute ==
    \/ get_driver
    \/ login_execute
    \/ iter_items_on_display
    \/ next_listing
    \/ item_handler
    \/ reraise_session
    \/ report_error
    \/ quit
    \/ execute_propagate
    \/ execute_retry
    \/ execute_exhausted

\* execute is sequential code and every collaborator call returns or raises:
\* a step that can be taken is taken.
SpecExecute == InitExecute /\ [][NextExecute]_vars /\ WF_vars(NextExecute)

----------------------------------------------------------------------------
\* One call of mercari_price_down.execute, with the listings it works on

\* A listing as the site holds it: the price without the shipping fee (the
\* value of the price input of its edit page), the shipping fee, the
\* favorite count, the text of its last modification, and the price changes
\* the site accepted for it, each with the attempt that submitted it.
Listing(price, shipping_fee, favorite) ==
    [price |-> price, shipping_fee |-> shipping_fee, favorite |-> favorite,
     is_stop |-> 0, modified |-> <<"1">> \o DaysAgo, submitted |-> <<>>]

\* The modification text of a listing whose price was changed just now.
JustNow == <<"1">> \o SecondsAgo

\* The listings on display: their prices go through ItemPrices, and they
\* have all the same shipping fee (none, or 1000).
Sites ==
    {[k \in 1..NumItems |->
        Listing(300 + 1000 * (((k - 1) % MaxThousands) + 1), sf, 0)] :
            sf \in {0, 1000}}

\* The item the enumerator hands to item_handler for a listing: its price
\* is the price on display, shipping fee included.
item_of(l) == [price |-> l.price + l.shipping_fee, favorite |-> l.favorite,
               is_stop |-> l.is_stop]

\* The pages of a listing as _execute_item reads them; total is what the
\* listing's page shows after the reload.
page_of(l, fault, total) ==
    [modified_text |-> l.modified, time_sale |-> FALSE, auction |-> FALSE,
     shipping_fee |-> IF l.shipping_fee = 0 THEN <<>> ELSE <<Shown(l.shipping_fee)>>,
     value |-> <<str(l.price)>>, total |-> total, fault |-> fault]

\* The number typed into the price input by a call that wrote.
typed_price(out) ==
    LET keys == out.send_keys[Len(out.send_keys)]
    IN  IF Head(keys) = "-" THEN 0 - int(Tail(keys)) ELSE int(keys)

InitSite ==
    /\ ExecuteEntered
    /\ ~clear_profile_on_browser_error
    /\ ~notify_log
    /\ args \in {[profile |-> pr, debug_mode |-> dm] :
                    pr \in Profiles, dm \in BOOLEAN}
    /\ site \in Sites

\* item_handler for the listing the enumerator is at: _execute_item on the
\* listing's pages. A click on the change button submits the typed price;
\* the site accepts it or not, and the session can end before the reload
\* (fault "reload") either way. An accepted change is the listing's new
\* price and makes the listing modified just now.
item_handler_on_site ==
    /\ pc = "item"
    /\ \E fault \in {"none", "modified", "edit", "reload"}, accepted \in BOOLEAN :
        LET k == log[CurAttempt].items
            l == site[k]
            tried == _execute_item(page_of(l, fault, <<"x">>), args.profile,
                                   item_of(l), args.debug_mode)
            changes == tried.change_clicks = 1 /\ accepted
            after == IF changes
                        THEN [l EXCEPT !.price = typed_price(tried),
                                       !.modified = JustNow,
                                       !.submitted =
                                            Append(@, [attempt |-> CurAttempt,
                                                       from |-> l.price,
                                                       to |-> typed_price(tried)])]
                        ELSE l
            out == _execute_item(
                        page_of(l, fault, Shown(after.price + after.shipping_fee)),
                        args.profile, item_of(l), args.debug_mode)
        IN  /\ site' = [site EXCEPT ![k] = after]
            /\ IF out.kind = "return"
                  THEN /\ pc' = "listing"
                       /\ UNCHANGED <<log, exc>>
                  ELSE /\ log' = [log EXCEPT
                                    ![CurAttempt].enum = ExceptionClass(out.kind),
                                    ![CurAttempt].raised_at = k]
                       /\ exc' = ExceptionClass(out.kind)
                       /\ pc' = "except"
    /\ UNCHANGED <<attempt, managers, onceRet, result, enumCalls, dumpTitles,
                   slackErrors, profileDeleted>>
    /\ UNCHANGED topVars
    /\ UNCHANGED <<call, args>>

NextSite ==
    \/ get_driver
    \/ login_execute
    \/ iter_items_on_display
    \/ next_listing
    \/ item_handler_on_site
    \/ reraise_session
    \/ report_error
    \/ quit
    \/ execute_propagate
    \/ execute_retry
    \/ execute_exhausted

SpecSite == InitSite /\ [][NextSite]_vars

----------------------------------------------------------------------------
\* Vocabulary of the properties

\* The call of mercari_price_down.execute in flight has ended.
Finished == pc \in {"returned", "raised"}

\* Attempt a ended with InvalidSessionIdException out of login or enumeration.
SessionIn(a) == log[a].login = "session" \/ log[a].enum = "session"

\* Attempt a ended with another exception class out of login or enumeration.
OtherErrorIn(a) ==
    \/ log[a].login \in {"login_error", "error"}
    \/ log[a].enum \in {"price_error", "parse_error", "error"}

Attempts == 1..Len(log)
Managers == 1..Len(managers)

RECURSIVE SumSeq(_)
SumSeq(s) == IF s = <<>> THEN 0 ELSE Head(s) + SumSeq(Tail(s))

FailedRuns == Cardinality({i \in 1..Len(results) : results[i] # 0})

InOrder(s) == \A i \in 1..Len(s) : s[i] = i

----------------------------------------------------------------------------
\* C1: when the first attempt's login raises the session-invalid error and the
\* second attempt's login and enumeration succeed, execute returns 0 and exactly
\* two browser launches happened: the initial one and exactly one relaunch (on
\* one newly built browser manager).
C1_RetrySucceeds ==
    (/\ Finished
     /\ Len(log) >= 2
     /\ log[1].login = "session"
     /\ log[2].login = "ok"
     /\ log[2].enum = "ok")
    => (/\ pc = "returned"
        /\ result = <<0>>
        /\ Len(log) = 2
        /\ Len(managers) = 2
        /\ \A i \in Managers : managers[i].get_driver = "ok")

C1_Witness ==
    /\ pc = "returned"
    /\ Len(log) = 2
    /\ log[1].login = "session"
    /\ log[2].login = "ok"
    /\ log[2].enum = "ok"
    /\ result = <<0>>

\* C2: when every attempt raises the session-invalid error, execute makes
\* exactly 2 launch attempts, returns -1 and sends exactly one error
\* notification, through the text-only channel and never through
\* dump_and_notify_error.
C2_RetryExhausted ==
    (Finished /\ \A a \in Attempts : SessionIn(a))
    => (/\ Len(log) = 2
        /\ pc = "returned"
        /\ result = <<-1>>
        /\ slackErrors = <<SessionErrorTitle>>
        /\ dumpTitles = <<>>)

\* C3: an exception class other than session-invalid, raised by login or
\* enumeration, is never followed by another launch attempt, and the profile
\* run ends by returning -1.
C3_OnlySessionRetried ==
    \A a \in Attempts :
        OtherErrorIn(a)
        => (/\ Len(log) = a
            /\ Finished => (pc = "returned" /\ result = <<-1>>))

\* C4 (as claimed): when execute has returned or raised, every browser manager
\* on which a launch was requested has had quit called exactly once.
C4_QuitOnEveryRequestedLaunch ==
    Finished =>
        \A i \in Managers :
            managers[i].get_driver # "none" => managers[i].quit = 1

\* C4 (amended): quit is never called twice on a manager, and when execute has
\* returned or raised, quit was called exactly once on every manager whose
\* launch succeeded and never on a manager whose launch failed.
C4_QuitOnEveryLaunchedBrowser ==
    /\ \A i \in Managers : managers[i].quit <= 1
    /\ Finished =>
         \A i \in Managers :
             managers[i].quit = IF managers[i].get_driver = "ok" THEN 1 ELSE 0

C4_Witness ==
    /\ pc = "raised"
    /\ Len(managers) = 2
    /\ managers[1].get_driver = "ok"
    /\ managers[1].quit = 1
    /\ managers[2].get_driver = "error"
    /\ managers[2].quit = 0

\* C5: a browser-launch failure of any exception class is fatal at once: no
\* later launch attempt, no login or enumeration in that attempt, and execute
\* ends by raising, never by returning a code.
C5_LaunchFailureFatal ==
    \A a \in Attempts :
        log[a].launch \in {"session", "error"}
        => (/\ Len(log) = a
            /\ log[a].login = "none"
            /\ log[a].enum = "none"
            /\ pc # "returned")

\* C6 (as claimed): whatever happened in earlier profiles, by the time the
\* top-level execute ends the profile run was invoked for every profile.
C6_EveryProfileRuns ==
    topPc \in {"returned", "raised"} => Len(called) = NumProfiles

\* C6 (amended): profiles are invoked in configuration order; a profile run
\* that returns a code, -1 included, is followed by the next profile, so when
\* the loop ends normally every profile was run; a profile run that raises
\* ends the loop: cli.execute raises and no later profile is run.
C6_ReturnedFailureDoesNotStopLoop ==
    /\ InOrder(called)
    /\ Len(called) \in {Len(results), Len(results) + 1}
    /\ topPc = "loop" => (Len(called) = Len(results) /\ profileIdx = Len(results) + 1)
    /\ topPc \in {"finish", "returned"}
         => (Len(called) = NumProfiles /\ Len(results) = NumProfiles)
    /\ topPc = "raised"
         => IF pc = "raised"
               THEN Len(called) = Len(results) + 1
               ELSE Len(called) = NumProfiles /\ Len(results) = NumProfiles

C6_Witness ==
    /\ topPc = "returned"
    /\ results[1] = -1
    /\ Len(called) = NumProfiles

\* C7: the value cli.execute returns is the sum of the per-profile codes, every
\* profile having been run exactly once in configuration order; it is 0 iff
\* every run returned 0 and otherwise minus the number of failed runs.
C7_ReturnIsSum ==
    topPc = "returned"
    => (/\ Len(called) = NumProfiles
        /\ InOrder(called)
        /\ Len(results) = NumProfiles
        /\ ret_code = SumSeq(results)
        /\ (ret_code = 0 <=> \A i \in 1..Len(results) : results[i] = 0)
        /\ ret_code = 0 - FailedRuns)

C7_Witness ==
    /\ topPc = "returned"
    /\ ret_code < 0
    /\ \E i \in 1..Len(results) : results[i] = 0
    /\ \E i \in 1..Len(results) : results[i] = -1

\* C8: with clear_profile_on_browser_error = False a session-invalid error out
\* of login or enumeration is not retried: no second browser manager, no second
\* launch, no profile deletion, and the run ends with -1.
C8_NoRetryWhenDisabled ==
    (/\ ~clear_profile_on_browser_error
     /\ Len(log) >= 1
     /\ SessionIn(1))
    => (/\ Len(managers) = 1
        /\ Len(log) = 1
        /\ profileDeleted = 0
        /\ pc = "returned" => result = <<-1>>)

\* C9: a LoginError out of login ends the run with -1 and exactly one
\* dump_and_notify_error call, titled as a login error; any other non-session
\* exception ends it with -1 and exactly one call titled as a price-down error.
C9_ReportedOnceByTitle ==
    Finished =>
        \A a \in Attempts :
            /\ log[a].login = "login_error"
                 => (/\ pc = "returned"
                     /\ result = <<-1>>
                     /\ dumpTitles = <<LoginErrorTitle>>)
            /\ (OtherErrorIn(a) /\ log[a].login # "login_error")
                 => (/\ pc = "returned"
                     /\ result = <<-1>>
                     /\ dumpTitles = <<PriceDownErrorTitle>>)

\* C10 (as claimed): one execute() call calls the listing enumerator exactly
\* once, after a successful login, and not at all when login never succeeded.
C10_EnumeratedExactlyOnce ==
    Finished =>
        enumCalls = IF \E a \in Attempts : log[a].login = "ok" THEN 1 ELSE 0

\* C10 (amended): the enumerator is called at most once per launch attempt, only
\* in an attempt whose launch and login succeeded, hence at most
\* _MAX_RETRY_COUNT + 1 times per execute() call; a call that ends after a
\* single attempt whose login succeeded has called it exactly once.
C10_EnumeratedOncePerSessionAfterLogin ==
    /\ enumCalls = Cardinality({a \in Attempts : log[a].enum # "none"})
    /\ \A a \in Attempts :
         log[a].enum # "none" => (log[a].launch = "ok" /\ log[a].login = "ok")
    /\ pc = "enum" => log[CurAttempt].login = "ok"
    /\ enumCalls <= _MAX_RETRY_COUNT + 1
    /\ (Finished /\ Len(log) = 1 /\ log[1].login = "ok") => enumCalls = 1

C10_Witness ==
    /\ Finished
    /\ enumCalls = 2
    /\ log[1].enum = "session"
    /\ log[2].login = "ok"

----------------------------------------------------------------------------
\* Vocabulary for the calls of the functions of logic.py

DiscountDone == call.fn = "get_discount_step" /\ call.done
RoundDone == call.fn = "round_price" /\ call.done
ParseDone == call.fn = "parse_modified_hour" /\ call.done

\* The rules of the call, as configured (unsorted).
Discount == call.args.profile.discount

\* The rules whose favorite-count threshold the favorite count meets.
Met == {i \in 1..Len(Discount) :
            Discount[i].favorite_count <= call.args.favorite_count}

\* The first of them in descending order of the favorite-count threshold
\* (among rules with the same threshold: the first as configured).
Consulted ==
    CHOOSE i \in Met :
        \A j \in Met :
            \/ Discount[j].favorite_count < Discount[i].favorite_count
            \/ Discount[j].favorite_count = Discount[i].favorite_count /\ i <= j

\* Every reordering of a list.
Reorderings(s) ==
    {[i \in 1..Len(s) |-> s[p[i]]] : p \in Permutations(1..Len(s))}

\* Rules with the same favorite-count threshold agree on step and floor.
TiesAgree(d) ==
    \A i, j \in 1..Len(d) :
        d[i].favorite_count = d[j].favorite_count => d[i] = d[j]

\* The number a string of digits denotes, digit by digit from the right.
RECURSIVE Pow10(_)
Pow10(n) == IF n = 0 THEN 1 ELSE 10 * Pow10(n - 1)
DigitString == FilterDigits(call.args.text)
N == LET d == DigitString
     IN  SumSeq([i \in 1..Len(d) |-> DigitVal(d[i]) * Pow10(Len(d) - i)])

Has(pattern) == search(pattern, call.args.text)
NoPattern ==
    /\ ~Has(SecondsAgo) /\ ~Has(MinutesAgo) /\ ~Has(HoursAgo)
    /\ ~Has(DaysAgo) /\ ~Has(MonthsAgo) /\ ~Has(HalfYearAgo)

----------------------------------------------------------------------------
\* C11: get_discount_step consults only the first rule, in descending order
\* of the favorite-count threshold, whose threshold the favorite count meets
\* (<=): it returns that rule's step if the price reaches that rule's floor
\* (>=) and None if it does not, whatever a later rule would say; it returns
\* None if no rule's threshold is met.
C11_FirstMetRuleDecides ==
    DiscountDone =>
        IF Met = {} THEN call.out = <<>>
        ELSE call.out = IF call.args.price >= Discount[Consulted].threshold
                           THEN <<Discount[Consulted].step>>
                           ELSE <<>>

\* The consulted rule's floor is missed, a rule with a lower threshold would
\* accept the price, and None is returned.
C11_Witness ==
    /\ DiscountDone
    /\ Met # {}
    /\ call.args.price < Discount[Consulted].threshold
    /\ \E j \in Met :
        /\ Discount[j].favorite_count < Discount[Consulted].favorite_count
        /\ call.args.price >= Discount[j].threshold
    /\ call.out = <<>>

\* C12 (as stated): the result of get_discount_step is the same for every
\* reordering of the rule list, rules sharing a favorite-count threshold
\* included.
C12_OrderIndependent ==
    DiscountDone =>
        \A d \in Reorderings(Discount) :
            get_discount_step([discount |-> d], call.args.price,
                              call.args.shipping_fee,
                              call.args.favorite_count) = call.out

\* C12 (amended): for rule lists in which rules sharing a favorite-count
\* threshold also share step and floor, the result is the same for every
\* reordering of the list.
C12_OrderIndependentUnlessTiesDiffer ==
    (DiscountDone /\ TiesAgree(Discount)) =>
        \A d \in Reorderings(Discount) :
            get_discount_step([discount |-> d], call.args.price,
                              call.args.shipping_fee,
                              call.args.favorite_count) = call.out

\* Two rules with different thresholds, configured in ascending order, and
\* the one with the higher threshold decides.
C12_Witness ==
    /\ DiscountDone
    /\ Len(Discount) = 2
    /\ Discount[1].favorite_count < Discount[2].favorite_count
    /\ Discount[1].step # Discount[2].step
    /\ Met = {1, 2}
    /\ call.out = <<Discount[2].step>>

\* C13: round_price is idempotent and, for a price x >= 0, its result r
\* satisfies r <= x, r % 10 = 0 and x - r < 10.
C13_RoundPrice ==
    RoundDone =>
        /\ round_price(call.out) = call.out
        /\ call.args.price >= 0 =>
            /\ call.out <= call.args.price
            /\ call.out % 10 = 0
            /\ call.args.price - call.out < 10

\* A price that is not a multiple of ten was rounded.
C13_Witness ==
    /\ RoundDone
    /\ call.args.price > 0
    /\ call.args.price % 10 = 9
    /\ call.out = call.args.price - 9

\* C14: parse_modified_hour applies its patterns in a fixed precedence:
\* seconds or minutes ago give 0; else hours ago give N; else days ago give
\* N*24; else months ago give N*24*30; else the half-a-year phrase gives
\* 4320; N being the number all digit characters of the text spell.
C14_Precedence ==
    ParseDone =>
        /\ (Has(SecondsAgo) \/ Has(MinutesAgo)) => call.out = Return(0)
        /\ (~Has(SecondsAgo) /\ ~Has(MinutesAgo) /\ DigitString # <<>>) =>
            /\ Has(HoursAgo) => call.out = Return(N)
            /\ (~Has(HoursAgo) /\ Has(DaysAgo)) => call.out = Return(N * 24)
            /\ (~Has(HoursAgo) /\ ~Has(DaysAgo) /\ Has(MonthsAgo)) =>
                    call.out = Return(N * 24 * 30)
        /\ (~Has(SecondsAgo) /\ ~Has(MinutesAgo)
                /\ ~Has(HoursAgo) /\ ~Has(DaysAgo) /\ ~Has(MonthsAgo)
                /\ Has(HalfYearAgo)) => call.out = Return(4320)

\* A text with a day phrase before an hour phrase and a digit after both:
\* the hour phrase wins and the digit counts, wherever it stands.
C14_Witness ==
    /\ ParseDone
    /\ Has(DaysAgo)
    /\ Has(HoursAgo)
    /\ call.args.text[1] = "nichi"
    /\ isdigit(call.args.text[Len(call.args.text)])
    /\ N > 0
    /\ call.out = Return(N)

\* C15: for a text that matches none of the patterns, the empty text
\* included, parse_modified_hour raises ModifiedTimeParseError carrying
\* exactly that text, and returns no value.
C15_NoPatternRaises ==
    (ParseDone /\ NoPattern) =>
        /\ call.out.kind = "ModifiedTimeParseError"
        /\ call.out.text = call.args.text
        /\ call.out.kind # "return"

\* The empty text was rejected.
C15_Witness ==
    /\ ParseDone
    /\ call.args.text = <<>>
    /\ call.out = ModifiedTimeParseError(<<>>)

----------------------------------------------------------------------------
\* Vocabulary for the calls of _execute_item

ItemDone == call.fn = "_execute_item" /\ call.done

\* The shipping fee the page states (0 without the element).
Fee ==
    IF call.args.driver.shipping_fee = <<>> THEN 0
    ELSE int(replace_comma(call.args.driver.shipping_fee[1]))

\* price = listing.price - shippingFee
ListedPrice == call.args.item.price - Fee

\* The call got as far as reading the price input.
ReachedPriceRead ==
    /\ call.args.item.is_stop = 0
    /\ call.args.driver.fault \notin {"modified", "edit"}
    /\ \E h \in {1, 24} :
        /\ parse_modified_hour(call.args.driver.modified_text) = Return(h)
        /\ h >= call.args.profile.interval.hour
    /\ ~call.args.driver.time_sale
    /\ ~call.args.driver.auction

\* The value attribute of the price input is a number.
ValueIsNumber ==
    /\ call.args.driver.value # <<>>
    /\ call.args.driver.value[1] # <<>>
    /\ \A i \in 1..Len(call.args.driver.value[1]) :
            call.args.driver.value[1][i] \in Digits
ValueRead == int(call.args.driver.value[1])

\* The call went on to the discount decision.
ReachedDecision ==
    \/ call.out.kind = "return" /\ call.out.reason \in {"no_discount", "changed"}
    \/ call.out.send_keys # <<>>
    \/ call.out.change_clicks # 0

\* Nothing was sent to the price input and the change button was not clicked.
NoWrite == call.out.send_keys = <<>> /\ call.out.change_clicks = 0

\* The number typed into the price input (the last of the keys sent).
Typed ==
    LET keys == call.out.send_keys[Len(call.out.send_keys)]
    IN  IF Head(keys) = "-" THEN 0 - int(Tail(keys)) ELSE int(keys)

\* The price shown after the reload is a number; the number.
TotalIsNumber ==
    \A i \in 1..Len(call.args.driver.total) :
        call.args.driver.total[i] \in Digits \cup {","}
TotalShown == int(replace_comma(call.args.driver.total))

\* C16: with price = listing.price - shippingFee, an unreadable value of the
\* price input raises PriceRetrievalError, a value that differs from price
\* raises PriceChangedError(expected = price, actual = value read), and the
\* discount decision is reached only when the value read equals price; both
\* errors come before any write to the price field.
C16_PriceReadAndVerified ==
    (ItemDone /\ ReachedPriceRead) =>
        /\ call.args.driver.value = <<>> =>
            /\ call.out.kind = "PriceRetrievalError"
            /\ NoWrite
        /\ (ValueIsNumber /\ ValueRead # ListedPrice) =>
            /\ call.out.kind = "PriceChangedError"
            /\ call.out.expected = <<ListedPrice>>
            /\ call.out.actual = <<ValueRead>>
            /\ NoWrite
        /\ ReachedDecision => (ValueIsNumber /\ ValueRead = ListedPrice)

\* A listing with a shipping fee whose price input holds the price including
\* the fee: PriceChangedError, nothing written.
C16_Witness ==
    /\ ItemDone
    /\ ReachedPriceRead
    /\ Fee > 0
    /\ ValueIsNumber
    /\ ValueRead = call.args.item.price
    /\ call.out.kind = "PriceChangedError"
    /\ call.out.expected = <<call.args.item.price - Fee>>
    /\ NoWrite

\* C17: after submitting, the action completes successfully iff the total
\* shown after the reload equals new_price + shippingFee; any other total
\* raises PriceVerificationError(expected = new_price + shippingFee,
\* actual = total shown).
C17_VerifiedAfterSubmit ==
    (ItemDone /\ call.out.change_clicks = 1
        /\ call.args.driver.fault # "reload" /\ TotalIsNumber) =>
        IF TotalShown = Typed + Fee
           THEN call.out.kind = "return" /\ call.out.reason = "changed"
           ELSE /\ call.out.kind = "PriceVerificationError"
                /\ call.out.expected = <<Typed + Fee>>
                /\ call.out.actual = <<TotalShown>>

\* A discounted price was submitted for a listing with a shipping fee and
\* the total shown matched.
C17_Witness ==
    /\ ItemDone
    /\ ~call.args.debug_mode
    /\ Fee > 0
    /\ call.out.change_clicks = 1
    /\ call.out.kind = "return"
    /\ call.out.reason = "changed"
    /\ Typed < ListedPrice
    /\ TotalShown = Typed + Fee

\* C18 (as stated): in debug mode nothing is typed into the price field and
\* the change button is not pressed.
C18_DebugNeverSubmits ==
    (ItemDone /\ call.args.debug_mode) => NoWrite

\* C18 (amended): in debug mode the action decides as usual, and when a
\* discount applies it types the unchanged price into the price field,
\* presses the change button and verifies that the total shown is the
\* listing's price: a changed price is never submitted.
C18_DebugSubmitsUnchangedPrice ==
    (ItemDone /\ call.args.debug_mode) =>
        /\ call.out.send_keys # <<>> =>
            /\ Typed = ListedPrice
            /\ call.out.change_clicks = 1
        /\ call.out.kind = "PriceVerificationError" =>
                call.out.expected = <<call.args.item.price>>
        /\ (call.out.kind = "return" /\ call.out.reason = "changed") =>
                TotalShown = call.args.item.price

\* In debug mode a discount applied, and the unchanged price was typed and
\* submitted.
C18_Witness ==
    /\ ItemDone
    /\ call.args.debug_mode
    /\ get_discount_step(call.args.profile, ListedPrice, Fee,
                         call.args.item.favorite) # <<>>
    /\ call.out.send_keys = send_keys(ListedPrice)
    /\ call.out.change_clicks = 1
    /\ call.out.kind = "return"
    /\ call.out.reason = "changed"

----------------------------------------------------------------------------
\* Vocabulary for the enumeration and the error report

\* In attempt a, _execute_item raised for a listing.
ItemRaisedIn(a) == log[a].raised_at # 0

\* In attempt a, the error handler's report was made and one of its steps
\* (page dump, screenshot, page source, send) failed.
ReportStepFailedIn(a) ==
    /\ log[a].current_url = "ok"
    /\ \/ log[a].report.dump_page \notin {"ok", "none"}
       \/ log[a].report.screenshot \notin {"ok", "none"}
       \/ log[a].report.page_source \notin {"ok", "none"}
       \/ log[a].report.notify \notin {"ok", "none"}

\* C19: once _execute_item raises for a listing (an error other than the
\* session error the retry loop takes care of), no later listing of that
\* attempt is handled, and the profile run is reported with the price-down
\* title and returns -1.
C19_HardErrorAbortsAndFails ==
    \A a \in Attempts :
        (ItemRaisedIn(a) /\ OtherErrorIn(a)) =>
            /\ log[a].items = log[a].raised_at
            /\ Finished =>
                /\ pc = "returned"
                /\ result = <<-1>>
                /\ dumpTitles = <<PriceDownErrorTitle>>

\* _execute_item raised for the second listing, after the first was handled;
\* the error was reported and the run returned -1.
C19_Witness ==
    /\ Finished
    /\ Len(log) = 1
    /\ log[1].raised_at = 2
    /\ log[1].items = 2
    /\ log[1].enum = "price_error"
    /\ result = <<-1>>
    /\ dumpTitles = <<PriceDownErrorTitle>>

\* C20: when the run failed with an exception and a step of the report (page
\* dump, screenshot, page source or send) fails, execute still returns -1
\* for that profile and nothing raised by the report escapes.
C20_ReportFailureNeverMasks ==
    (Finished /\ Len(log) = 1 /\ ReportStepFailedIn(1)) =>
        /\ pc = "returned"
        /\ result = <<-1>>

\* The screenshot and the page source failed, the send was made, and the
\* run returned -1.
C20_Witness ==
    /\ Finished
    /\ Len(log) = 1
    /\ log[1].report.screenshot = "error"
    /\ log[1].report.page_source = "error"
    /\ log[1].report.notify = "ok"
    /\ pc = "returned"
    /\ result = <<-1>>

----------------------------------------------------------------------------
\* Vocabulary for the browser managers

\* The browser of manager i is running: it was launched and not quit.
Live(i) == managers[i].get_driver = "ok" /\ managers[i].quit = 0

\* C21: when a session error of the first attempt is retried, the profile
\* directory has been deleted by the time the retry's browser is launched,
\* whatever flag the caller passed.
C21_ProfileClearedBeforeRetryLaunch ==
    (Len(log) = 2 /\ log[1].launch = "ok" /\ SessionIn(1) /\ log[2].launch = "ok")
        => profileDeleted >= 1

\* The retry's launch failed, and only then was the profile deleted.
C21_Witness ==
    /\ Len(log) = 2
    /\ log[1].launch = "ok"
    /\ SessionIn(1)
    /\ ~clear_profile_on_browser_error
    /\ log[2].launch = "error"
    /\ profileDeleted = 1

\* C23: the progress display is started before any profile run begins and
\* stopped exactly once, after the last activity of a profile run, on every
\* path, the one on which a profile run raises included.
C23_ProgressStartedAndStoppedOnce ==
    /\ progress.start <= 1
    /\ progress.stop <= 1
    /\ called # <<>> => progress.start = 1
    /\ topPc \in {"finish", "returned", "raised"} =>
            (progress.start = 1 /\ progress.stop = 1)
    /\ progress.stop = 1 =>
            (topPc \in {"finish", "returned", "raised"}
                /\ pc \in {"idle", "raised"})

\* The first profile run raised: the display was stopped and the other
\* profiles were not run.
C23_Witness ==
    /\ topPc = "raised"
    /\ pc = "raised"
    /\ called = <<1>>
    /\ progress = [start |-> 1, stop |-> 1]

\* C24: at most one browser is running at any time: when a browser is
\* launched every browser launched before it has been quit, and no browser
\* is running between two profile runs or after the last one.
C24_AtMostOneBrowser ==
    /\ Cardinality({i \in Managers : Live(i)}) <= 1
    /\ pc = "launch" => \A i \in Managers : ~Live(i)
    /\ pc \in {"idle", "returned", "raised"} => \A i \in Managers : ~Live(i)

\* The retry's browser is running and the browser of the failed attempt has
\* been quit.
C24_Witness ==
    /\ Len(managers) = 2
    /\ managers[1].get_driver = "ok"
    /\ managers[1].quit = 1
    /\ Live(2)

----------------------------------------------------------------------------
\* More vocabulary for the calls of _execute_item

\* The elapsed hours the page states ("1 hour ago": 1, "1 day ago": 24).
ElapsedIs(h) == parse_modified_hour(call.args.driver.modified_text) = Return(h)

\* The call got as far as the freshness check, with h elapsed hours.
ReachedFreshness(h) ==
    /\ call.args.item.is_stop = 0
    /\ call.args.driver.fault # "modified"
    /\ ElapsedIs(h)

\* The call got as far as the discount decision.
PriceAgreed ==
    /\ ReachedPriceRead
    /\ ValueIsNumber
    /\ ValueRead = ListedPrice

\* The rule the discount decision rests on: of the rules whose favorite
\* count the listing reaches, the one with the largest (the rules of the
\* profiles differ in it).
Selectable ==
    {i \in 1..Len(call.args.profile.discount) :
        call.args.profile.discount[i].favorite_count <= call.args.item.favorite}
Selected ==
    call.args.profile.discount[
        CHOOSE i \in Selectable :
            \A j \in Selectable :
                call.args.profile.discount[j].favorite_count
                    <= call.args.profile.discount[i].favorite_count]

SkippedForPrice == call.out.kind = "return" /\ call.out.reason = "no_discount"
Wrote == call.out.send_keys # <<>>

\* C25: every intentional skip leaves the price alone: a stopped listing
\* (whatever the page is), elapsed hours below the interval (equal is
\* eligible), a timed sale, the auction format, or no discount step: the
\* action returns without keys sent to the price field and without a click
\* on the change button.
C25_SkipsWriteNothing ==
    ItemDone =>
        /\ call.args.item.is_stop # 0 => call.out = Skip("stopped")
        /\ \A h \in {1, 24} :
            ReachedFreshness(h) =>
                /\ h < call.args.profile.interval.hour => call.out = Skip("fresh")
                /\ h >= call.args.profile.interval.hour =>
                    /\ call.out.reason # "fresh"
                    /\ call.args.driver.time_sale => call.out = Skip("time_sale")
                    /\ (~call.args.driver.time_sale /\ call.args.driver.auction)
                            => call.out = Skip("auction")
        /\ (PriceAgreed
                /\ get_discount_step(call.args.profile, ListedPrice, Fee,
                                     call.args.item.favorite) = <<>>)
                => (SkippedForPrice /\ NoWrite)
        /\ (call.out.kind = "return" /\ call.out.reason # "changed") => NoWrite

\* A listing modified exactly interval.hour hours ago was not skipped as
\* fresh; it was skipped at the discount decision, nothing written.
C25_Witness ==
    /\ ItemDone
    /\ call.args.profile.interval.hour = 24
    /\ ReachedFreshness(24)
    /\ PriceAgreed
    /\ SkippedForPrice
    /\ NoWrite

\* C26: with step d selected for a listing of shipping-excluded price p, the
\* value typed into the price field is p - d rounded down to a multiple of
\* ten outside debug mode and p in debug mode, and the verification expects
\* that value plus the shipping fee.
C26_TypedAndExpected ==
    (ItemDone /\ Wrote) =>
        /\ PriceAgreed
        /\ call.out.send_keys[Len(call.out.send_keys)] = str(Typed)
        /\ call.args.debug_mode => Typed = ListedPrice
        /\ ~call.args.debug_mode =>
            /\ Typed % 10 = 0
            /\ Typed <= ListedPrice - Selected.step
            /\ ListedPrice - Selected.step < Typed + 10
        /\ call.out.kind = "PriceVerificationError" =>
                call.out.expected = <<Typed + Fee>>
        /\ (call.out.kind = "return" /\ call.out.reason = "changed") =>
                TotalShown = Typed + Fee

\* Outside debug mode, a price that needed rounding was typed for a listing
\* with a shipping fee, and the verification expected it plus the fee.
C26_Witness ==
    /\ ItemDone
    /\ Wrote
    /\ ~call.args.debug_mode
    /\ Fee > 0
    /\ (ListedPrice - Selected.step) % 10 # 0
    /\ call.out.kind = "PriceVerificationError"
    /\ call.out.expected = <<Typed + Fee>>

C30_NewPriceBounds ==
    (ItemDone /\ Wrote /\ ~call.args.debug_mode /\ Selected.step >= 1) =>
        /\ Typed % 10 = 0
        /\ ListedPrice - Selected.step - 10 < Typed
        /\ Typed <= ListedPrice - Selected.step
        /\ ListedPrice - Selected.step < ListedPrice
        /\ Selected.step <= Selected.threshold => Typed >= 0

\* A step larger than its rule's floor led to a negative price being typed.
C30_Witness ==
    /\ ItemDone
    /\ Wrote
    /\ ~call.args.debug_mode
    /\ Selected.step > Selected.threshold
    /\ Typed < 0
    /\ Typed % 10 = 0
    /\ Typed <= ListedPrice - Selected.step

----------------------------------------------------------------------------
\* C28: whatever launch, login, enumeration and notification do (return or
\* raise), a call of execute ends, by a return or a raise, after at most two
\* browser launch attempts; a value it returns is 0 or -1, and it is 0 only
\* if the login and the enumeration of the last attempt both completed
\* without raising.
ExecuteEnded == pc \in {"returned", "raised"}
C28_ExecuteTerminates ==
    /\ [](Len(log) <= 2)
    /\ [](pc = "returned" =>
            /\ result \in {<<0>>, <<-1>>}
            /\ result = <<0>> =>
                /\ log[Len(log)].login = "ok"
                /\ log[Len(log)].enum = "ok")
    /\ <>ExecuteEnded

\* execute returned 0 from its second launch attempt, after a first attempt
\* that ended in a session error.
C28_Witness ==
    /\ pc = "returned"
    /\ result = <<0>>
    /\ Len(log) = 2
    /\ SessionIn(1)
    /\ log[2].login = "ok"
    /\ log[2].enum = "ok"

----------------------------------------------------------------------------
\* Vocabulary for the listings behind a call of execute

ListingIds == 1..NumItems
Submitted(k) == site[k].submitted

\* The site accepted a price change of listing k submitted in attempt a.
SubmittedIn(k, a) == \E i \in 1..Len(Submitted(k)) : Submitted(k)[i].attempt = a

\* item_handler has acted for listing k in attempt a, and it returned.
HandledIn(k, a) ==
    /\ Len(log) >= a
    /\ log[a].items >= k
    /\ ~(a = Len(log) /\ log[a].items = k /\ pc = "item")
ReturnedIn(k, a) == HandledIn(k, a) /\ log[a].raised_at # k

\* The price of listing k after its first accepted change still gets a
\* discount step.
StillDiscountable(k) ==
    get_discount_step(args.profile, Submitted(k)[1].to, site[k].shipping_fee,
                      site[k].favorite) # <<>>

\* C22: a retry of the whole profile run can discount a listing again. The
\* accepted changes of a listing are one per attempt at most and chain (each
\* starts from the price the one before left); a listing changed in the
\* first attempt and handled to the end in the retry is, outside debug mode,
\* changed again to a lower price still, when the interval does not make it
\* fresh (interval.hour = 0) and its price still gets a discount step; two
\* accepted changes of one listing happen in no other way.
C22_RetryDiscountsAgain ==
    \A k \in ListingIds :
        /\ Len(Submitted(k)) <= Len(log)
        /\ \A i \in 1..Len(Submitted(k)) :
            /\ i < Len(Submitted(k)) =>
                /\ Submitted(k)[i].attempt < Submitted(k)[i + 1].attempt
                /\ Submitted(k)[i + 1].from = Submitted(k)[i].to
            /\ i = Len(Submitted(k)) => site[k].price = Submitted(k)[i].to
            /\ ~args.debug_mode => Submitted(k)[i].to < Submitted(k)[i].from
            /\ args.debug_mode => Submitted(k)[i].to = Submitted(k)[i].from
        /\ (SubmittedIn(k, 1) /\ SubmittedIn(k, 2)) =>
            /\ Len(log) = 2
            /\ args.profile.interval.hour = 0
        /\ (/\ ~args.debug_mode
            /\ SubmittedIn(k, 1)
            /\ ReturnedIn(k, 2)
            /\ args.profile.interval.hour = 0
            /\ StillDiscountable(k))
                => SubmittedIn(k, 2)

\* A session error ended the first attempt at a listing whose price change
\* had been submitted and accepted; the retry went through that listing
\* again and reduced its price a second time.
C22_Witness ==
    /\ ~args.debug_mode
    /\ \E k \in ListingIds :
        /\ Len(Submitted(k)) = 2
        /\ Submitted(k)[1].attempt = 1
        /\ Submitted(k)[2].attempt = 2
        /\ log[1].enum = "session"
        /\ log[1].raised_at = k
        /\ ReturnedIn(k, 2)
        /\ Submitted(k)[2].to < Submitted(k)[1].to
        /\ Submitted(k)[1].to < Submitted(k)[1].from
====
